---- MODULE Spec2Model ----
(***************************************************************************)
(* A model of the blackjack program: the Card, Deck (shoe) and Hand        *)
(* classes and the round engine of class Blackjack.                        *)
(*                                                                         *)
(* Five specifications share the state:                                    *)
(*   Spec      the round engine (Blackjack.play), phase by phase, from     *)
(*             _start_round through _end_round;                            *)
(*   SpecLive  the round engine with max_splits=None and weak fairness;    *)
(*   SpecLate  the round engine taken up before a round that opens with    *)
(*             the shoe nearly used up;                                    *)
(*   SpecShoe  the Deck driven through the two entry points the engine     *)
(*             uses: the reshuffle test that opens _deal, and draw_card;   *)
(*   SpecHand  the Hand class driven through add and split.                *)
(*                                                                         *)
(* Python values: None is <<>> and a present value v is <<v>>; a list is a *)
(* sequence whose element k+1 is the list's element k, so list.pop() takes *)
(* the last element.  A raised exception ends the run: its class name is   *)
(* kept in error.                                                          *)
(***************************************************************************)
EXTENDS Integers, Sequences, FiniteSets, TLC

VARIABLES
    deck,           \* Blackjack._deck: [num_decks, use_stop_card, insert_reached, cards]
    money_left,     \* Blackjack._money_left
    min_bet,        \* Blackjack._min_bet
    max_bet,        \* Blackjack._max_bet (None or a number)
    player_hands,   \* Blackjack._player_hands: a list of Hand
    house_hand,     \* Blackjack._house_hand
    bets,           \* Blackjack._bets
    results,        \* Blackjack._results (each None or a number)
    pc,             \* the phase of play() that runs next
    error,          \* "none", or the class of the exception that ended the run
    drawn,          \* the cards draw_card returned during the last step, in order
    last_reset,     \* what _reset_cards built during the last step, if it ran
    last_op,        \* the last operation and the hand it was applied to
    rules,          \* the house rules given to Blackjack.__init__
    rounds_played,  \* Blackjack._rounds_played
    cur,            \* i of _player_turn: the hand being played (1-based)
    splits          \* the number of splits made so far in the round

vars == <<deck, money_left, min_bet, max_bet, player_hands, house_hand, bets,
          results, pc, error, drawn, last_reset, last_op, rules, rounds_played,
          cur, splits>>

(***************************************************************************)
(* Bounds of the model.                                                    *)
(***************************************************************************)
MaxDecks == 2        \* num_decks ranges over 1..MaxDecks
ShuffleDepth == 2    \* a shuffle chooses the first ShuffleDepth cards drawn
MaxHands == 2        \* hands asked for at the start of a round
MaxWager == 4        \* wagers answered range over 0..MaxWager
MaxHandCards == 4    \* cards held by the hands of SpecHand together
MaxHandObjs == 3     \* Hand objects of SpecHand
DealDepth == 4       \* cards at the top of a round's deck chosen among DealRanks
SoftDepth == 5       \* cards at the top of a round's deck chosen among SoftRanks
MaxRounds == 1       \* rounds started in one run
LateRound == 8       \* rounds already played when SpecLate takes up the run
LateCards == 3       \* cards left in the shoe when SpecLate takes up the run
MaxHouseDraws == 12  \* more cards than the house can draw in one turn

(***************************************************************************)
(* Program constants.                                                      *)
(***************************************************************************)
NumRanks == 13
NumSuits == 4
StopLow == 60
StopHigh == 75
BustLimit == 21
MaxTableHands == 7

None == <<>>
Some(v) == <<v>>

Last(s) == s[Len(s)]
Front(s) == SubSeq(s, 1, Len(s) - 1)

(***************************************************************************)
(* Card                                                                    *)
(***************************************************************************)
Card(rank, suit, is_flipped) ==
    [rank |-> rank, suit |-> suit, is_flipped |-> is_flipped,
     value |-> IF rank = 1 THEN 11
               ELSE IF rank >= 11 /\ rank <= 13 THEN 10
               ELSE rank]

StopCard == Card(0, 0, FALSE)

\* the is_flipped property: a stop card never reads as flipped (hidden)
IsFlipped(c) == IF c.rank # 0 THEN c.is_flipped ELSE FALSE

Flip(c) == [c EXCEPT !.is_flipped = ~IsFlipped(c)]

IsStopCardNever(c) == FALSE

\* card == STOP_CARD: cards compare by rank, and the stop card has rank 0
IsStopCard(c) == c.rank = 0

(***************************************************************************)
(* Deck                                                                    *)
(***************************************************************************)
NumCards(num_decks) == NumRanks * NumSuits * num_decks

NewCardsFaceUp(num_decks) ==
    [k \in 1..NumCards(num_decks) |->
        LET q == (k - 1) \div num_decks
        IN  Card((q \div NumSuits) + 1, (q % NumSuits) + 1, FALSE)]

\* [Card(i, j, is_flipped=True) for i in 1..13 for j in 1..4 for _ in range(num_decks)]
NewCards(num_decks) ==
    [k \in 1..NumCards(num_decks) |->
        LET q == (k - 1) \div num_decks
        IN  Card((q \div NumSuits) + 1, (q % NumSuits) + 1, TRUE)]

(* random.shuffle: any permutation of the list.  The model draws the       *)
(* permutation from a bounded family: the first ShuffleDepth cards to be   *)
(* drawn have any ranks of TopRanks, in any order, and the rest of the     *)
(* list keeps the order it was built in.                                   *)
TopRanks == {1, 6, 13}

TopChoices(num_decks) ==
    {t \in [1..ShuffleDepth -> TopRanks] :
        \A r \in TopRanks :
            Cardinality({k \in 1..ShuffleDepth : t[k] = r}) <= NumSuits * num_decks}

\* the place in NewCards of the k-th card of top: the next unused card of its rank
TopIndex(num_decks, top, k) ==
    (top[k] - 1) * NumSuits * num_decks
        + Cardinality({j \in 1..k : top[j] = top[k]})

Shuffled(num_decks, top) ==
    LET new == NewCards(num_decks)
        n == Len(new)
        d == Len(top)
        picked == {TopIndex(num_decks, top, k) : k \in 1..d}
        rest == SelectSeq([k \in 1..n |-> k], LAMBDA k : k \notin picked)
    IN  [j \in 1..n |->
            IF j <= n - d THEN new[rest[j]]
            ELSE new[TopIndex(num_decks, top, n - j + 1)]]

\* list.insert(i, x): an index past the end appends
InsertAt(s, i, x) ==
    LET p == IF i > Len(s) THEN Len(s) ELSE i
    IN  SubSeq(s, 1, p) \o <<x>> \o SubSeq(s, p + 1, Len(s))

StopPositionsBottom == {0}

\* randint(60, 75)
StopPositions == StopLow..StopHigh

\* Deck._reset_cards, given the outcome of shuffle and of randint
ResetCards(num_decks, use_stop_card, top, pos) ==
    IF use_stop_card
    THEN InsertAt(Shuffled(num_decks, top), pos, StopCard)
    ELSE Shuffled(num_decks, top)

\* num_decks and use_stop_card as Blackjack.__init__ admits them
DeckConfigs ==
    {c \in (1..MaxDecks) \X BOOLEAN : c[2] => c[1] >= 2}

\* num_decks and use_stop_card as Deck.__init__ admits them
ShoeConfigs == (1..MaxDecks) \X BOOLEAN

\* every outcome of _reset_cards: the deck built, by num_decks and use_stop_card
FreshAll ==
    UNION {{[num_decks |-> c[1], use_stop_card |-> c[2],
             cards |-> ResetCards(c[1], c[2], top, pos)] :
                top \in TopChoices(c[1]),
                pos \in IF c[2] THEN StopPositions ELSE {StopLow}} :
           c \in ShoeConfigs}

\* the outcomes of _reset_cards for deck d
FreshCards(d) ==
    {f \in FreshAll : f.num_decks = d.num_decks /\ f.use_stop_card = d.use_stop_card}

NoFresh == [num_decks |-> 0, use_stop_card |-> FALSE, cards |-> <<>>]

\* Deck.__init__
NewDeck(num_decks, use_stop_card, fresh) ==
    [num_decks |-> num_decks, use_stop_card |-> use_stop_card,
     insert_reached |-> FALSE, cards |-> fresh]

NoReset == [happened |-> FALSE, by |-> "none", cards |-> <<>>, insert_reached |-> FALSE]

\* a step's view of the deck: the deck, the cards returned so far, the reset
\* performed so far and the exception raised so far
Ctx(d) == [deck |-> d, drawn |-> <<>>, last_reset |-> NoReset, error |-> "none"]

\* what draw_card hands out: flipped face up unless face_down
Give(card, face_down) == IF face_down THEN card ELSE Flip(card)

\* Deck.draw_card; fresh is the list _reset_cards builds if the deck is empty
DrawCard(ctx, face_down, fresh) ==
    IF ctx.error # "none" THEN ctx
    ELSE
    LET empty == ctx.deck.cards = <<>>
        c0 == IF empty THEN fresh ELSE ctx.deck.cards
        lr == IF empty
              THEN [happened |-> TRUE, by |-> "draw_card", cards |-> fresh,
                    insert_reached |-> ctx.deck.insert_reached]
              ELSE ctx.last_reset
        card == Last(c0)
        c1 == Front(c0)
    IN  IF ~IsStopCard(card)
        THEN [deck |-> [ctx.deck EXCEPT !.cards = c1],
              drawn |-> Append(ctx.drawn, Give(card, face_down)),
              last_reset |-> lr, error |-> "none"]
        ELSE IF c1 = <<>>
        THEN [deck |-> [ctx.deck EXCEPT !.cards = c1, !.insert_reached = TRUE],
              drawn |-> ctx.drawn, last_reset |-> lr, error |-> "IndexError"]
        ELSE [deck |-> [ctx.deck EXCEPT !.cards = Front(c1), !.insert_reached = TRUE],
              drawn |-> Append(ctx.drawn, Give(Last(c1), face_down)),
              last_reset |-> lr, error |-> "none"]

ReshuffleAlways(ctx, fresh) ==
    [ctx EXCEPT !.deck.cards = fresh, !.deck.insert_reached = FALSE]

\* the opening of _deal: reshuffle if the stop card was reached
Reshuffle(ctx, fresh) ==
    IF ctx.deck.insert_reached
    THEN [ctx EXCEPT !.deck.cards = fresh,
                     !.deck.insert_reached = FALSE,
                     !.last_reset = [happened |-> TRUE, by |-> "deal", cards |-> fresh,
                                     insert_reached |-> FALSE]]
    ELSE ctx

\* the lists a step may be handed by _reset_cards: none unless it resets
FreshIfEmpty(d) == IF d.cards = <<>> THEN FreshCards(d) ELSE {NoFresh}
FreshIfReached(d) == IF d.insert_reached THEN FreshCards(d) ELSE {NoFresh}

(***************************************************************************)
(* Hand                                                                    *)
(***************************************************************************)
Hand(cards, times_split) == [cards |-> cards, times_split |-> times_split]

RECURSIVE SumValues(_)
SumValues(cards) ==
    IF cards = <<>> THEN 0 ELSE Last(cards).value + SumValues(Front(cards))

Score(h) == SumValues(h.cards)
IsBusted(h) == Score(h) > BustLimit
Is21(h) == Score(h) = BustLimit

\* Hand._orient_hand: while busted, turn the first 11-ace into a 1-ace
RECURSIVE OrientCards(_)
OrientCards(cards) ==
    LET elevens == {i \in 1..Len(cards) : cards[i].value = 11}
    IN  IF SumValues(cards) > BustLimit /\ elevens # {}
        THEN LET i == CHOOSE i \in elevens : \A j \in elevens : i <= j
             IN  OrientCards([cards EXCEPT ![i].value = 1])
        ELSE cards

\* Hand.add
HandAdd(h, card, front) ==
    [h EXCEPT !.cards = OrientCards(IF front THEN <<card>> \o h.cards
                                    ELSE Append(h.cards, card))]

NoHand == Hand(<<>>, 0)

HandSplitKeepsAce(h) ==
    IF h.cards = <<>>
    THEN [hand |-> Hand(<<>>, h.times_split + 1), new |-> NoHand, error |-> "IndexError"]
    ELSE [hand |-> Hand(Front(h.cards), h.times_split + 1),
          new |-> Hand(<<Last(h.cards)>>, h.times_split + 1),
          error |-> "none"]

\* Hand.split: the hand afterwards, the hand returned and the exception raised
HandSplit(h) ==
    IF h.cards = <<>>
    THEN [hand |-> Hand(<<>>, h.times_split + 1), new |-> NoHand, error |-> "IndexError"]
    ELSE LET first == IF h.cards[1].value = 1
                      THEN [h.cards[1] EXCEPT !.value = 11]
                      ELSE h.cards[1]
             cards == [h.cards EXCEPT ![1] = first]
         IN  [hand |-> Hand(Front(cards), h.times_split + 1),
              new |-> Hand(<<Last(cards)>>, h.times_split + 1),
              error |-> "none"]

\* Hand.can_split_same
CanSplitSame(h) == Len(h.cards) = 2 /\ h.cards[1].rank = h.cards[2].rank

\* Hand.can_split
CanSplit(h) ==
    IF Len(h.cards) # 2 THEN FALSE
    ELSE IF h.cards[1].rank > 10 THEN h.cards[1].value = h.cards[2].value
    ELSE CanSplitSame(h)

\* Hand.is_s17: sorted(self) == sorted((ACE, SIX)), cards compared by rank
IsS17(h) ==
    /\ Len(h.cards) = 2
    /\ \/ h.cards[1].rank = 1 /\ h.cards[2].rank = 6
       \/ h.cards[1].rank = 6 /\ h.cards[2].rank = 1

(***************************************************************************)
(* Blackjack: the round engine.                                            *)
(***************************************************************************)
\* the record of an operation: its name, the place i and the hand pre it was
\* applied to, and the wagers answered (of _collect_bets only)
Op(name, i, pre) == [op |-> name, i |-> i, pre |-> pre, wagers |-> <<>>]

\* the house rules of Blackjack.__init__, by parameter name
Rules(h17, can_dd_after_split, max_splits, natural_after_split, can_split_diff_tens, one_hit_ace_split) ==
    [h17 |-> h17, can_dd_after_split |-> can_dd_after_split, max_splits |-> max_splits,
     natural_after_split |-> natural_after_split,
     can_split_diff_tens |-> can_split_diff_tens,
     one_hit_ace_split |-> one_hit_ace_split]

\* the defaults of Blackjack.__init__
NoRules == Rules(TRUE, TRUE, Some(3), TRUE, TRUE, TRUE)

RECURSIVE SumSeq(_)
SumSeq(s) == IF s = <<>> THEN 0 ELSE Last(s) + SumSeq(Front(s))

Min(a, b) == IF a <= b THEN a ELSE b

\* _start_round, given the answer n to 'How many hands?'
StartRound(n) ==
    IF ~(money_left >= min_bet)
    THEN [error |-> "ValueError", player_hands |-> player_hands, house_hand |-> house_hand]
    ELSE IF money_left >= min_bet * 2
    THEN IF ~(1 <= n /\ n <= MaxTableHands)
         THEN [error |-> "ValueError", player_hands |-> player_hands,
               house_hand |-> house_hand]
         ELSE IF ~(money_left >= min_bet * n)
         THEN [error |-> "ValueError", player_hands |-> player_hands,
               house_hand |-> house_hand]
         ELSE [error |-> "none", player_hands |-> [k \in 1..n |-> NoHand],
               house_hand |-> NoHand]
    ELSE [error |-> "none", player_hands |-> <<NoHand>>, house_hand |-> NoHand]

RECURSIVE CollectFromKeepsBad(_, _, _)
CollectFromKeepsBad(bs, k, ws) ==
    IF k > Len(player_hands) THEN [bets |-> bs, error |-> "none"]
    ELSE LET left == money_left - SumSeq(bs)
             top == IF max_bet # None THEN Min(left, max_bet[1]) ELSE left
             bet == ws[k]
         IN  IF ~(bet >= min_bet)
             THEN [bets |-> bs, error |-> "AttributeError"]
             ELSE IF ~(bet <= top)
             THEN [bets |-> Append(bs, bet), error |-> "ValueError"]
             ELSE CollectFromKeepsBad(Append(bs, bet), k + 1, ws)

\* the loop of _collect_bets from hand k on, given the wagers answered
RECURSIVE CollectFrom(_, _, _)
CollectFrom(bs, k, ws) ==
    IF k > Len(player_hands) THEN [bets |-> bs, error |-> "none"]
    ELSE LET left == money_left - SumSeq(bs)
             top == IF max_bet # None THEN Min(left, max_bet[1]) ELSE left
             bet == ws[k]
         IN  IF ~(bet >= min_bet)
             THEN [bets |-> bs, error |-> "AttributeError"]
             ELSE IF ~(bet <= top)
             THEN [bets |-> bs, error |-> "ValueError"]
             ELSE CollectFrom(Append(bs, bet), k + 1, ws)

\* _collect_bets
CollectBets(ws) == CollectFrom(<<>>, 1, ws)

To(who, i, face_down, front) ==
    [who |-> who, i |-> i, face_down |-> face_down, front |-> front]

DealOrderHouseFirst(n) ==
    <<To("house", 0, TRUE, FALSE)>>
        \o [k \in 1..n |-> To("player", k, FALSE, FALSE)]
        \o [k \in 1..n |-> To("player", k, FALSE, FALSE)]
        \o <<To("house", 0, FALSE, TRUE)>>

\* the order in which _deal hands out its cards to n player hands
DealOrder(n) ==
    [k \in 1..n |-> To("player", k, FALSE, FALSE)]
        \o <<To("house", 0, TRUE, FALSE)>>
        \o [k \in 1..n |-> To("player", k, FALSE, FALSE)]
        \o <<To("house", 0, FALSE, TRUE)>>

\* one card of _deal: draw it and add it to its hand
DealOne(st, to, fresh) ==
    LET ctx == DrawCard(st.ctx, to.face_down, fresh)
    IN  IF ctx.error # "none" THEN [st EXCEPT !.ctx = ctx]
        ELSE IF to.who = "player"
        THEN [st EXCEPT !.ctx = ctx,
                        !.player_hands[to.i] = HandAdd(@, Last(ctx.drawn), to.front)]
        ELSE [st EXCEPT !.ctx = ctx,
                        !.house_hand = HandAdd(@, Last(ctx.drawn), to.front)]

\* the loops of _deal from place k of the order on; the state after each card
\* is bound as a value (nx) before the loop goes on
RECURSIVE DealFrom(_, _, _, _)
DealFrom(st, order, k, fresh) ==
    IF k > Len(order) \/ st.ctx.error # "none" THEN st
    ELSE CHOOSE res \in {DealFrom(nx, order, k + 1, fresh) :
                            nx \in {DealOne(st, order[k], fresh)}} : TRUE

\* _deal; fresh1 is what _reset_cards builds for the reshuffle, fresh2 what it
\* builds if the deck runs empty while dealing
DealCards(fresh1, fresh2) ==
    DealFrom([ctx |-> Reshuffle(Ctx(deck), fresh1),
              player_hands |-> player_hands, house_hand |-> house_hand],
             DealOrder(Len(player_hands)), 1, fresh2)

PaysDouble(bet) == 2 * bet

\* int(round(bet * 1.5)): round() takes a tie to the even neighbour
Round15(bet) ==
    LET t == 3 * bet
    IN  IF t % 2 = 0 THEN t \div 2
        ELSE IF ((t - 1) \div 2) % 2 = 0 THEN (t - 1) \div 2
        ELSE (t + 1) \div 2

\* the result _check_naturals gives hand i
NaturalResult(i) ==
    LET p == Is21(player_hands[i])
        h == Is21(house_hand)
    IN  IF p /\ ~h THEN Some(Round15(bets[i]))
        ELSE IF h /\ ~p THEN Some(-bets[i])
        ELSE IF p /\ h THEN Some(0)
        ELSE None

\* the first hand from index i on whose result is still None, or one past the
\* last hand: the skipping loop of _player_turn
NextPending(res, i) ==
    IF \E j \in i..Len(res) : res[j] = None
    THEN CHOOSE j \in i..Len(res) : res[j] = None /\ \A k \in i..(j - 1) : res[k] # None
    ELSE Len(res) + 1

OneHitAceNever(i) == FALSE

\* whether hand i must take its one card after a split of aces
OneHitAce(i) ==
    /\ rules.one_hit_ace_split
    /\ player_hands[i].times_split = 1
    /\ player_hands[i].cards[1].rank = 1

CanRedoBetAlways(i) == TRUE

\* whether the player can afford to repeat the bet of hand i
CanRedoBet(i) == money_left - SumSeq(bets) >= bets[i]

OffersDoubleDownAlways(i) == TRUE

\* whether 'dd' is offered for hand i
OffersDoubleDown(i) ==
    CanRedoBet(i) /\ (rules.can_dd_after_split \/ player_hands[i].times_split = 0)

\* whether 'sp' is offered for hand i
OffersSplit(i) ==
    /\ IF rules.can_split_diff_tens THEN CanSplit(player_hands[i])
       ELSE CanSplitSame(player_hands[i])
    /\ (rules.max_splits = None \/ player_hands[i].times_split < rules.max_splits[1])
    /\ CanRedoBet(i)

\* the choices offered for hand i
Choices(i) ==
    {"h", "s"} \cup (IF OffersDoubleDown(i) THEN {"dd"} ELSE {})
               \cup (IF OffersSplit(i) THEN {"sp"} ELSE {})

InsertAtEnd(s, i, x) == Append(s, x)

\* list.insert(i, x) on a list of the round, x going in after element i
InsertAfter(s, i, x) == SubSeq(s, 1, i) \o <<x>> \o SubSeq(s, i + 1, Len(s))

TurnNeverDone(hands, bs, res, ctx, done, err, sp) ==
    [player_hands |-> hands, bets |-> bs, results |-> res, ctx |-> ctx,
     done |-> FALSE, error |-> err, splits |-> sp]

\* the round as one pass of the inner loop of _player_turn leaves it
Turn(hands, bs, res, ctx, done, err, sp) ==
    [player_hands |-> hands, bets |-> bs, results |-> res, ctx |-> ctx,
     done |-> done, error |-> err, splits |-> sp]

\* 'sp': the hand is split and the new hand, its bet and its result go in after it
TurnSplit(i) ==
    LET r == HandSplit(player_hands[i])
    IN  IF r.error # "none"
        THEN Turn([player_hands EXCEPT ![i] = r.hand], bets, results, Ctx(deck),
                  FALSE, r.error, splits)
        ELSE Turn(InsertAfter([player_hands EXCEPT ![i] = r.hand], i, r.new),
                  InsertAfter(bets, i, bets[i]),
                  InsertAfter(results, i, None),
                  Ctx(deck), FALSE, "none", splits + 1)

\* 'h' and 'dd': the hand takes a card and is tested for a bust and for 21
TurnHit(i, choice, one_hit_ace, fresh) ==
    LET bs == IF choice = "dd" THEN [bets EXCEPT ![i] = 2 * @] ELSE bets
        ctx == DrawCard(Ctx(deck), FALSE, fresh)
    IN  IF ctx.error # "none"
        THEN Turn(player_hands, bs, results, ctx, FALSE, ctx.error, splits)
        ELSE LET hand == HandAdd(player_hands[i], Last(ctx.drawn), FALSE)
                 hands == [player_hands EXCEPT ![i] = hand]
             IN  IF IsBusted(hand)
                 THEN Turn(hands, bs, [results EXCEPT ![i] = Some(-bs[i])], ctx,
                           TRUE, "none", splits)
                 ELSE IF Is21(hand)
                 THEN IF rules.natural_after_split /\ Len(hand.cards) = 2
                      THEN Turn(hands, bs, [results EXCEPT ![i] = Some(Round15(bs[i]))],
                                ctx, TRUE, "none", splits)
                      ELSE Turn(hands, bs, results, ctx, TRUE, "none", splits)
                 ELSE Turn(hands, bs, results, ctx, choice = "dd" \/ one_hit_ace,
                           "none", splits)

\* one pass of the inner loop of _player_turn for hand i, given the answer
PlayerChoice(i, answer, fresh) ==
    LET one_hit_ace == OneHitAce(i)
        choice == IF one_hit_ace THEN "h" ELSE answer
    IN  IF ~one_hit_ace /\ choice \notin Choices(i)
        THEN Turn(player_hands, bets, results, Ctx(deck), FALSE, "ValueError", splits)
        ELSE IF choice = "s"
        THEN Turn(player_hands, bets, results, Ctx(deck), TRUE, "none", splits)
        ELSE IF choice = "sp" THEN TurnSplit(i)
        ELSE TurnHit(i, choice, one_hit_ace, fresh)

HouseDrawsBelow17(h) == Score(h) < 17

\* the condition of the drawing loop of _house_turn
HouseDraws(h) == Score(h) < 17 \/ (IsS17(h) /\ rules.h17)

\* the drawing loop of _house_turn; the card drawn (c) and the hand with it
\* (nh) are bound as values before the loop goes on
RECURSIVE HouseLoop(_, _, _)
HouseLoop(h, ctx, fresh) ==
    IF ctx.error # "none" \/ ~HouseDraws(h) THEN [house_hand |-> h, ctx |-> ctx]
    ELSE CHOOSE res \in
            {IF c.error # "none" THEN [house_hand |-> h, ctx |-> c]
             ELSE CHOOSE r \in {HouseLoop(nh, c, fresh) :
                                    nh \in {HandAdd(h, Last(c.drawn), FALSE)}} : TRUE :
                c \in {DrawCard(ctx, FALSE, fresh)}} : TRUE

HouseTurnPaysAll(fresh) ==
    IF \E i \in 1..Len(results) : results[i] = None
    THEN LET r == HouseLoop([house_hand EXCEPT !.cards[2] = Flip(@)], Ctx(deck), fresh)
         IN  [house_hand |-> r.house_hand, ctx |-> r.ctx,
              results |-> IF IsBusted(r.house_hand)
                          THEN [i \in 1..Len(results) |-> Some(bets[i])]
                          ELSE results]
    ELSE [house_hand |-> house_hand, ctx |-> Ctx(deck), results |-> results]

\* _house_turn
HouseTurn(fresh) ==
    IF \E i \in 1..Len(results) : results[i] = None
    THEN LET r == HouseLoop([house_hand EXCEPT !.cards[2] = Flip(@)], Ctx(deck), fresh)
         IN  [house_hand |-> r.house_hand, ctx |-> r.ctx,
              results |-> IF IsBusted(r.house_hand)
                          THEN [i \in 1..Len(results) |->
                                    IF results[i] = None THEN Some(bets[i])
                                    ELSE results[i]]
                          ELSE results]
    ELSE [house_hand |-> house_hand, ctx |-> Ctx(deck), results |-> results]

ShownResultKeeps(i) == results[i]

ShownResultTieLoses(i) ==
    LET p == player_hands[i]
    IN  IF Score(house_hand) = 21 /\ Len(house_hand.cards) = 2 THEN results[i]
        ELSE IF Score(p) = 21 /\ results[i] = Some(Round15(bets[i])) THEN results[i]
        ELSE IF Score(p) > 21 THEN results[i]
        ELSE IF IsBusted(house_hand) THEN results[i]
        ELSE IF Score(p) > Score(house_hand) THEN Some(bets[i])
        ELSE Some(-bets[i])

\* the result _show_results leaves for hand i
ShownResult(i) ==
    LET p == player_hands[i]
    IN  IF Score(house_hand) = 21 /\ Len(house_hand.cards) = 2 THEN results[i]
        ELSE IF Score(p) = 21 /\ results[i] = Some(Round15(bets[i])) THEN results[i]
        ELSE IF Score(p) > 21 THEN results[i]
        ELSE IF IsBusted(house_hand) THEN results[i]
        ELSE IF Score(p) < Score(house_hand) THEN Some(-bets[i])
        ELSE IF Score(p) > Score(house_hand) THEN Some(bets[i])
        ELSE Some(0)

\* sum(self._results)
RECURSIVE SumResults(_)
SumResults(res) ==
    IF res = <<>> THEN 0 ELSE Last(res)[1] + SumResults(Front(res))

\* the starting money, minimum bet and maximum bet given to Blackjack.__init__
MoneyConfigs == {<<4, 1, Some(3)>>, <<4, 2, None>>}

\* the house rules given to Blackjack.__init__: the defaults, and every rule
\* the other way with one split allowed
RuleConfigs ==
    {Rules(TRUE, TRUE, Some(3), TRUE, TRUE, TRUE),
     Rules(FALSE, FALSE, Some(1), FALSE, FALSE, FALSE)}

\* the shuffles the rounds are played with: the first DealDepth cards drawn
\* have any ranks of DealRanks, or the first SoftDepth any ranks of SoftRanks
DealRanks == {1, 6, 13}

SoftRanks == {1, 3}

TopsOf(depth, ranks, num_decks) ==
    {t \in [1..depth -> ranks] :
        \A r \in ranks :
            Cardinality({k \in 1..depth : t[k] = r}) <= NumSuits * num_decks}

DealChoices(num_decks) ==
    TopsOf(DealDepth, DealRanks, num_decks) \cup TopsOf(SoftDepth, SoftRanks, num_decks)

\* the decks the rounds are played with: what _reset_cards built in Deck.__init__
DealtDecks ==
    {[num_decks |-> 1, use_stop_card |-> FALSE,
      cards |-> ResetCards(1, FALSE, top, StopLow)] : top \in DealChoices(1)}

\* the state after Blackjack.__init__, the shoe being one of decks, the money
\* and bet limits one of monies and the house rules one of ruleset
InitWith(decks, monies, ruleset) ==
    /\ \E fresh \in decks :
            /\ deck = NewDeck(fresh.num_decks, fresh.use_stop_card, fresh.cards)
            /\ last_reset = [happened |-> TRUE, by |-> "init", cards |-> fresh.cards,
                             insert_reached |-> FALSE]
    /\ \E m \in monies :
            /\ money_left = m[1]
            /\ min_bet = m[2]
            /\ max_bet = m[3]
    /\ rules \in ruleset
    /\ player_hands = <<>>
    /\ house_hand = NoHand
    /\ bets = <<>>
    /\ results = <<>>
    /\ pc = "start_round"
    /\ error = "none"
    /\ drawn = <<>>
    /\ last_op = Op("init", 0, NoHand)
    /\ rounds_played = 0
    /\ cur = 1
    /\ splits = 0

Init == InitWith(DealtDecks, MoneyConfigs, RuleConfigs)

\* the answers to 'How many hands?'
HandCountInputs == 0..MaxHands \cup {MaxTableHands + 1}

\* the rounds followed: the first MaxRounds of a run, and the round after
\* LateRound rounds
RoundsFollowed == (0..(MaxRounds - 1)) \cup {LateRound}

StartRoundStep ==
    /\ pc = "start_round"
    /\ error = "none"
    /\ rounds_played \in RoundsFollowed
    /\ \E n \in HandCountInputs :
         LET r == StartRound(n)
         IN  /\ player_hands' = r.player_hands
             /\ house_hand' = r.house_hand
             /\ error' = r.error
             /\ pc' = IF r.error = "none" THEN "collect_bets" ELSE "raised"
    /\ drawn' = <<>>
    /\ last_reset' = NoReset
    /\ last_op' = Op("start_round", 0, NoHand)
    /\ splits' = 0
    /\ UNCHANGED <<deck, money_left, min_bet, max_bet, bets, results, rules,
                   rounds_played, cur>>

CollectBetsStep ==
    /\ pc = "collect_bets"
    /\ error = "none"
    /\ \E ws \in [1..Len(player_hands) -> 0..MaxWager] :
         LET r == CollectBets(ws)
         IN  /\ bets' = r.bets
             /\ error' = r.error
             /\ pc' = IF r.error = "none" THEN "deal" ELSE "raised"
             /\ last_op' = [Op("collect_bets",
                                 IF r.error = "none" THEN 0 ELSE Len(r.bets) + 1,
                                 NoHand) EXCEPT !.wagers = ws]
    /\ drawn' = <<>>
    /\ last_reset' = NoReset
    /\ UNCHANGED <<deck, money_left, min_bet, max_bet, player_hands, house_hand,
                   results, rules, rounds_played, cur, splits>>

\* the lists _reset_cards may build if the deck runs empty within k draws
FreshIfShort(d, k) == IF Len(d.cards) <= k + 1 THEN FreshCards(d) ELSE {NoFresh}

DealStep ==
    /\ pc = "deal"
    /\ error = "none"
    /\ \E fresh1 \in FreshIfReached(deck) :
         \E fresh2 \in FreshIfShort(deck, 2 * Len(player_hands) + 2) :
            \E r \in {DealCards(fresh1.cards, fresh2.cards)} :
                /\ deck' = r.ctx.deck
                /\ drawn' = r.ctx.drawn
                /\ last_reset' = r.ctx.last_reset
                /\ error' = r.ctx.error
                /\ player_hands' = r.player_hands
                /\ house_hand' = r.house_hand
                /\ pc' = IF r.ctx.error = "none" THEN "check_naturals" ELSE "raised"
    /\ last_op' = Op("deal", 0, NoHand)
    /\ UNCHANGED <<money_left, min_bet, max_bet, bets, results, rules, rounds_played,
                   cur, splits>>

CheckNaturalsStep ==
    /\ pc = "check_naturals"
    /\ error = "none"
    /\ results' = [i \in 1..Len(player_hands) |-> NaturalResult(i)]
    /\ house_hand' = IF Is21(house_hand)
                     THEN [house_hand EXCEPT !.cards[2] = Flip(@)]
                     ELSE house_hand
    /\ pc' = "player_turn"
    /\ drawn' = <<>>
    /\ last_reset' = NoReset
    /\ last_op' = Op("check_naturals", 0, NoHand)
    /\ UNCHANGED <<deck, money_left, min_bet, max_bet, player_hands, bets, error, rules,
                   rounds_played, cur, splits>>

\* the answers to the question put for a hand
ChoiceInputs == {"h", "s", "dd", "sp", "x"}

\* the name under which a pass of the inner loop of _player_turn is recorded
TurnName(i, answer, r) ==
    IF OneHitAce(i) THEN "turn_one_hit_ace"
    ELSE IF r.error = "ValueError" /\ answer \notin Choices(i) THEN "turn_rejected"
    ELSE answer

\* one pass of the inner loop of _player_turn, for the next hand without a result
PlayerStep ==
    /\ pc = "player_turn"
    /\ error = "none"
    /\ NextPending(results, cur) <= Len(player_hands)
    /\ LET i == NextPending(results, cur)
       IN  \E answer \in (IF OneHitAce(i) THEN {"h"} ELSE ChoiceInputs) :
             \E fresh \in FreshIfShort(deck, 1) :
                \E r \in {PlayerChoice(i, answer, fresh.cards)} :
                    /\ player_hands' = r.player_hands
                    /\ bets' = r.bets
                    /\ results' = r.results
                    /\ deck' = r.ctx.deck
                    /\ drawn' = r.ctx.drawn
                    /\ last_reset' = r.ctx.last_reset
                    /\ error' = r.error
                    /\ splits' = r.splits
                    /\ cur' = IF r.done THEN i + 1 ELSE i
                    /\ pc' = IF r.error = "none" THEN "player_turn" ELSE "raised"
                    /\ last_op' = Op(TurnName(i, answer, r), i, player_hands[i])
    /\ UNCHANGED <<money_left, min_bet, max_bet, house_hand, rules, rounds_played>>

\* _player_turn returns: no hand from i on is without a result
PlayerTurnReturn ==
    /\ pc = "player_turn"
    /\ error = "none"
    /\ NextPending(results, cur) > Len(player_hands)
    /\ pc' = "house_turn"
    /\ cur' = 1
    /\ drawn' = <<>>
    /\ last_reset' = NoReset
    /\ last_op' = Op("player_turn", 0, NoHand)
    /\ UNCHANGED <<deck, money_left, min_bet, max_bet, player_hands, house_hand, bets,
                   results, error, rules, rounds_played, splits>>

HouseTurnStep ==
    /\ pc = "house_turn"
    /\ error = "none"
    /\ \E fresh \in FreshIfShort(deck, MaxHouseDraws) :
         \E r \in {HouseTurn(fresh.cards)} :
             /\ house_hand' = r.house_hand
             /\ results' = r.results
             /\ deck' = r.ctx.deck
             /\ drawn' = r.ctx.drawn
             /\ last_reset' = r.ctx.last_reset
             /\ error' = r.ctx.error
             /\ pc' = IF r.ctx.error = "none" THEN "show_results" ELSE "raised"
    /\ last_op' = Op("house_turn", 0, house_hand)
    /\ UNCHANGED <<money_left, min_bet, max_bet, player_hands, bets, rules,
                   rounds_played, cur, splits>>

ShowResultsStep ==
    /\ pc = "show_results"
    /\ error = "none"
    /\ results' = [i \in 1..Len(player_hands) |-> ShownResult(i)]
    /\ pc' = "end_round"
    /\ drawn' = <<>>
    /\ last_reset' = NoReset
    /\ last_op' = Op("show_results", 0, NoHand)
    /\ UNCHANGED <<deck, money_left, min_bet, max_bet, player_hands, house_hand, bets,
                   error, rules, rounds_played, cur, splits>>

\* the answers to 'Play Again?'
PlayAgainInputs == {"y", "n", "x"}

EndRoundNoCount(answer) ==
    LET money == money_left + SumResults(results)
    IN  [money_left |-> money, rounds_played |-> rounds_played, error |-> "none",
         pc |-> IF money >= min_bet /\ answer = "y" THEN "start_round" ELSE "done"]

\* _end_round, given the answer to 'Play Again?' if it is asked
EndRound(answer) ==
    IF \E i \in 1..Len(results) : results[i] = None
    THEN [money_left |-> money_left, rounds_played |-> rounds_played,
          error |-> "TypeError", pc |-> "raised"]
    ELSE LET money == money_left + SumResults(results)
         IN  IF money >= min_bet
             THEN IF answer \notin {"y", "n"}
                  THEN [money_left |-> money, rounds_played |-> rounds_played + 1,
                        error |-> "ValueError", pc |-> "raised"]
                  ELSE [money_left |-> money, rounds_played |-> rounds_played + 1,
                        error |-> "none",
                        pc |-> IF answer = "y" THEN "start_round" ELSE "done"]
             ELSE [money_left |-> money, rounds_played |-> rounds_played + 1,
                   error |-> "none", pc |-> "done"]

EndRoundStep ==
    /\ pc = "end_round"
    /\ error = "none"
    /\ \E answer \in PlayAgainInputs :
         LET r == EndRound(answer)
         IN  /\ money_left' = r.money_left
             /\ rounds_played' = r.rounds_played
             /\ error' = r.error
             /\ pc' = r.pc
    /\ drawn' = <<>>
    /\ last_reset' = NoReset
    /\ last_op' = Op("end_round", 0, NoHand)
    /\ UNCHANGED <<deck, min_bet, max_bet, player_hands, house_hand, bets, results,
                   rules, cur, splits>>

Next ==
    \/ StartRoundStep
    \/ CollectBetsStep
    \/ DealStep
    \/ CheckNaturalsStep
    \/ PlayerStep
    \/ PlayerTurnReturn
    \/ HouseTurnStep
    \/ ShowResultsStep
    \/ EndRoundStep

Spec == Init /\ [][Next]_vars

(***************************************************************************)
(* SpecLive: the round engine with max_splits=None, and with the fairness  *)
(* of a running program: play() calls the phases one after the other, each *)
(* phase runs to its end or raises, and every question put to the player   *)
(* is answered.                                                            *)
(***************************************************************************)

\* the house rules of RuleConfigs with no limit on splits
UnlimitedSplits == {[r EXCEPT !.max_splits = None] : r \in RuleConfigs}

\* the ranks of the first DealDepth cards of the shoes of SpecLive
LiveRanks == {1, 13}

\* the decks the rounds of SpecLive are played with
LiveDecks ==
    {[num_decks |-> 1, use_stop_card |-> FALSE,
      cards |-> ResetCards(1, FALSE, top, StopLow)] :
        top \in TopsOf(DealDepth, LiveRanks, 1)}

\* the starting money, minimum bet and maximum bet of SpecLive
LiveMoney == {<<4, 1, Some(3)>>}

InitLive == InitWith(LiveDecks, LiveMoney, UnlimitedSplits)

SpecLive == InitLive /\ [][Next]_vars /\ WF_vars(Next)

(***************************************************************************)
(* SpecLate: the round engine taken up between two rounds late in a run,   *)
(* when the shoe (one deck, no stop card) is down to its last LateCards    *)
(* cards, so that draw_card finds the shoe empty during the round.         *)
(***************************************************************************)

\* the shoes of LateCards cards left over, next card to be drawn last
LateShoes ==
    {[k \in 1..LateCards |-> Card(t[k], k, TRUE)] : t \in [1..LateCards -> TopRanks]}

\* the hands the round before has left behind: the player's nineteen has won
\* against the dealer's seventeen
LastPlayerHand == Hand(<<Card(10, 4, FALSE), Card(9, 4, FALSE)>>, 0)

LastHouseHand == Hand(<<Card(10, 3, FALSE), Card(7, 4, FALSE)>>, 0)

\* the state play() is in when 'y' has been answered to 'Play again?' at the
\* end of round LateRound: the lists of that round are still in place
InitLate ==
    /\ \E late \in LateShoes : deck = NewDeck(1, FALSE, late)
    /\ last_reset = NoReset
    /\ \E m \in MoneyConfigs :
            /\ money_left = m[1]
            /\ min_bet = m[2]
            /\ max_bet = m[3]
            /\ bets = <<m[2]>>
            /\ results = <<Some(m[2])>>
    /\ rules \in RuleConfigs
    /\ player_hands = <<LastPlayerHand>>
    /\ house_hand = LastHouseHand
    /\ pc = "start_round"
    /\ error = "none"
    /\ drawn = <<>>
    /\ last_op = Op("end_round", 0, NoHand)
    /\ rounds_played = LateRound
    /\ cur = 1
    /\ splits = 0

SpecLate == InitLate /\ [][Next]_vars

(***************************************************************************)
(* SpecShoe: the Deck as the round engine drives it.                       *)
(***************************************************************************)

InitShoe ==
    /\ \E c \in ShoeConfigs :
         \E fresh \in FreshCards([num_decks |-> c[1], use_stop_card |-> c[2]]) :
            /\ deck = NewDeck(c[1], c[2], fresh.cards)
            /\ last_reset = [happened |-> TRUE, by |-> "init", cards |-> fresh.cards,
                             insert_reached |-> FALSE]
    /\ money_left = 0
    /\ min_bet = 1
    /\ max_bet = None
    /\ player_hands = <<>>
    /\ house_hand = NoHand
    /\ bets = <<>>
    /\ results = <<>>
    /\ pc = "shoe"
    /\ error = "none"
    /\ drawn = <<>>
    /\ last_op = Op("init", 0, NoHand)
    /\ rules = NoRules
    /\ rounds_played = 0
    /\ cur = 0
    /\ splits = 0

\* one call of draw_card
ShoeDraw ==
    /\ pc = "shoe"
    /\ error = "none"
    /\ \E face_down \in BOOLEAN :
         \E fresh \in FreshIfEmpty(deck) :
            LET r == DrawCard(Ctx(deck), face_down, fresh.cards)
            IN  /\ deck' = r.deck
                /\ drawn' = r.drawn
                /\ last_reset' = r.last_reset
                /\ error' = r.error
    /\ last_op' = Op("draw_card", 0, NoHand)
    /\ UNCHANGED <<money_left, min_bet, max_bet, player_hands, house_hand, bets,
                   results, pc, rules, rounds_played, cur, splits>>

\* a round begins: the reshuffle test that opens _deal
ShoeDeal ==
    /\ pc = "shoe"
    /\ error = "none"
    /\ \E fresh \in FreshIfReached(deck) :
         LET r == Reshuffle(Ctx(deck), fresh.cards)
         IN  /\ deck' = r.deck
             /\ drawn' = r.drawn
             /\ last_reset' = r.last_reset
             /\ error' = r.error
    /\ last_op' = Op("deal", 0, NoHand)
    /\ UNCHANGED <<money_left, min_bet, max_bet, player_hands, house_hand, bets,
                   results, pc, rules, rounds_played, cur, splits>>

NextShoe == ShoeDraw \/ ShoeDeal

SpecShoe == InitShoe /\ [][NextShoe]_vars

SameCard(c, d) == c.rank = d.rank /\ c.suit = d.suit /\ c.is_flipped = d.is_flipped

(***************************************************************************)
(* Properties of the shoe, checked under SpecShoe.                         *)
(***************************************************************************)
RealCards(cards) == SelectSeq(cards, LAMBDA c : c.rank # 0)

Markers(cards) == SelectSeq(cards, LAMBDA c : c.rank = 0)

OfRank(cards, r) == SelectSeq(cards, LAMBDA c : c.rank = r)

\* the number of cards lying beneath the marker in a list that holds one
Beneath(cards) == (CHOOSE k \in 1..Len(cards) : cards[k].rank = 0) - 1

AllHands == player_hands \o <<house_hand>>

\* C2: no draw ever returns the cut-card marker: every card handed out by
\* draw_card, and every card lying in a hand, is a real card.
C2_NeverReturnsMarker ==
    /\ \A k \in 1..Len(drawn) : drawn[k].rank \in 1..13
    /\ \A i \in 1..Len(AllHands) :
         \A k \in 1..Len(AllHands[i].cards) : AllHands[i].cards[k].rank \in 1..13

\* C2, the case: a draw has just taken the marker off the top of the shoe,
\* raised the flag and handed out the card beneath it (the marker lay 75 deep).
C2_Witness ==
    /\ last_op.op = "draw_card"
    /\ deck.use_stop_card
    /\ deck.insert_reached
    /\ Markers(deck.cards) = <<>>
    /\ Len(deck.cards) = StopHigh - 1
    /\ Len(drawn) = 1

\* C3: a draw never fails: it raises nothing and hands out exactly one real
\* card; on an empty shoe it first resets and then hands out the topmost real
\* card of the fresh shoe.
C3_DrawNeverFails ==
    /\ error = "none"
    /\ (last_op.op = "draw_card") =>
         /\ Len(drawn) = 1
         /\ drawn[1].rank \in 1..13
    /\ (last_op.op = "draw_card" /\ last_reset.happened) =>
         /\ last_reset.by = "draw_card"
         /\ drawn[1].rank = Last(RealCards(last_reset.cards)).rank
         /\ drawn[1].suit = Last(RealCards(last_reset.cards)).suit
         /\ RealCards(deck.cards) = Front(RealCards(last_reset.cards))

\* C3, the case: a draw found the shoe empty, reset it and drew from it.
C3_Witness ==
    /\ last_op.op = "draw_card"
    /\ last_reset.happened
    /\ last_reset.by = "draw_card"
    /\ error = "none"
    /\ Len(drawn) = 1

\* a freshly reset shoe of num_decks decks
FreshShoe(cards, num_decks, use_stop_card) ==
    /\ Len(RealCards(cards)) = 52 * num_decks
    /\ \A r \in 1..13 : Len(OfRank(cards, r)) = 4 * num_decks
    /\ \A k \in 1..Len(cards) : cards[k].rank # 0 => cards[k].is_flipped
    /\ Len(Markers(cards)) = (IF use_stop_card THEN 1 ELSE 0)
    /\ (use_stop_card /\ num_decks >= 2) =>
         (Beneath(cards) >= 60 /\ Beneath(cards) <= 75)

\* C4: immediately after any reset the shoe holds 52 * deckCount real cards,
\* 4 * deckCount of each rank, all face-down, and exactly one marker if
\* usesMarker (none otherwise), with between 60 and 75 real cards beneath it
\* when deckCount >= 2.
C4_ResetContents ==
    last_reset.happened =>
        FreshShoe(last_reset.cards, deck.num_decks, deck.use_stop_card)

\* C4, the case: a shoe with a marker ran empty and was reset by a draw, the
\* marker going in 75 cards deep.
C4_Witness ==
    /\ last_reset.happened
    /\ last_reset.by = "draw_card"
    /\ deck.use_stop_card
    /\ Beneath(last_reset.cards) = StopHigh

\* C5: every reset of the shoe clears markerReached: right after a reset the
\* flag is false.
C5_ResetClearsFlag == last_reset.happened => ~last_reset.insert_reached

\* C6: at the start of Deal the shoe is reset if and only if markerReached is
\* true, and is otherwise left as it is; a draw resets nothing while the shoe
\* holds cards, so reaching the marker causes no reshuffle in its own round;
\* and the flag, once raised, stays raised until the next Deal, which resets.
C6_ReshuffleAtDeal ==
    [][
        /\ (last_op'.op = "deal") =>
            IF deck.insert_reached
            THEN /\ last_reset'.happened
                 /\ deck'.cards = last_reset'.cards
                 /\ last_reset'.by = "deal"
                 /\ Len(deck'.cards) > NumCards(deck.num_decks) - 1
                 /\ ~deck'.insert_reached
            ELSE /\ ~last_reset'.happened
                 /\ deck' = deck
        /\ (last_op'.op = "draw_card" /\ deck.cards # <<>>) =>
            /\ ~last_reset'.happened
            /\ Len(deck'.cards) < Len(deck.cards)
        /\ (last_op'.op = "draw_card" /\ deck.insert_reached) =>
            deck'.insert_reached
    ]_vars

\* C6, the case: the marker was reached in the round before and the Deal that
\* opens this round has reset the shoe.
C6_Witness ==
    /\ last_op.op = "deal"
    /\ last_reset.happened
    /\ last_reset.by = "deal"
    /\ ~deck.insert_reached
    /\ Len(deck.cards) = NumCards(deck.num_decks) + 1

(***************************************************************************)
(* SpecHand: the Hand class driven through add and split.                  *)
(***************************************************************************)
\* the cards handed to add: face up, of a few ranks and two suits
HandRanks == {1, 9, 10, 13}
HandSuits == {1, 2}
AddCards == {Card(r, s, FALSE) : r \in HandRanks, s \in HandSuits}

RECURSIVE CountCards(_)
CountCards(hands) ==
    IF hands = <<>> THEN 0 ELSE Len(Last(hands).cards) + CountCards(Front(hands))

InitHand ==
    /\ deck = NewDeck(1, FALSE, <<>>)
    /\ last_reset = NoReset
    /\ money_left = 0
    /\ min_bet = 1
    /\ max_bet = None
    /\ player_hands = <<NoHand>>
    /\ house_hand = NoHand
    /\ bets = <<>>
    /\ results = <<>>
    /\ pc = "hand"
    /\ error = "none"
    /\ drawn = <<>>
    /\ last_op = Op("init", 0, NoHand)
    /\ rules = NoRules
    /\ rounds_played = 0
    /\ cur = 0
    /\ splits = 0

\* one call of add on a hand
HandAddStep ==
    /\ pc = "hand"
    /\ error = "none"
    /\ CountCards(player_hands) < MaxHandCards
    /\ \E i \in 1..Len(player_hands) :
         \E c \in AddCards :
            \E front \in BOOLEAN :
                /\ player_hands' = [player_hands EXCEPT ![i] = HandAdd(@, c, front)]
                /\ last_op' = Op("add", i, player_hands[i])
    /\ UNCHANGED <<deck, money_left, min_bet, max_bet, house_hand, bets, results,
                   pc, error, drawn, last_reset, rules, rounds_played, cur, splits>>

\* one call of split on a hand; the hand returned is kept after it
HandSplitStep ==
    /\ pc = "hand"
    /\ error = "none"
    /\ Len(player_hands) < MaxHandObjs
    /\ \E i \in 1..Len(player_hands) :
         LET r == HandSplit(player_hands[i])
         IN  /\ player_hands' =
                    IF r.error = "none"
                    THEN SubSeq(player_hands, 1, i - 1) \o <<r.hand, r.new>>
                            \o SubSeq(player_hands, i + 1, Len(player_hands))
                    ELSE [player_hands EXCEPT ![i] = r.hand]
             /\ error' = r.error
             /\ last_op' = Op("split", i, player_hands[i])
    /\ UNCHANGED <<deck, money_left, min_bet, max_bet, house_hand, bets, results,
                   pc, drawn, last_reset, rules, rounds_played, cur, splits>>

NextHand == HandAddStep \/ HandSplitStep

SpecHand == InitHand /\ [][NextHand]_vars

(***************************************************************************)
(* Claims about Hand (checked under SpecHand).                             *)
(***************************************************************************)
\* the value of a card with every ace counted 1
LowValue(c) == IF c.rank = 1 THEN 1 ELSE IF c.rank > 10 THEN 10 ELSE c.rank

RECURSIVE LowTotal(_)
LowTotal(cards) ==
    IF cards = <<>> THEN 0 ELSE LowValue(Last(cards)) + LowTotal(Front(cards))

\* the reference total: the largest total of at most 21 with each ace 1 or 11,
\* or the total with every ace 1 when there is none
BestTotal(cards) ==
    LET low == LowTotal(cards)
        aces == Cardinality({i \in 1..Len(cards) : cards[i].rank = 1})
        fits == {t \in {low + 10 * k : k \in 0..aces} : t <= BustLimit}
    IN  IF fits = {} THEN low ELSE CHOOSE t \in fits : \A u \in fits : u <= t

ScoreIsBest(h) ==
    /\ Score(h) = BestTotal(h.cards)
    /\ Score(h) > BustLimit => \A i \in 1..Len(h.cards) : h.cards[i].value # 11

\* C7: every hand built by add (back or front) and split scores the reference
\* best total, and holds no ace valued 11 when its score exceeds 21.
C7_ScoreIsBestTotal ==
    \A i \in 1..Len(player_hands) : ScoreIsBest(player_hands[i])

Eligible(h) == CanSplit(h) \/ CanSplitSame(h)

\* C8: split on a hand that is not split-eligible fails with NotSplittable and
\* leaves the hand as it was.
C8_IneligibleSplitRejected ==
    (last_op.op = "split" /\ ~Eligible(last_op.pre)) =>
        /\ error = "NotSplittable"
        /\ player_hands[last_op.i] = last_op.pre


\* C9: splitting a split-eligible two-card hand with times_split = s leaves it
\* holding only its first card and returns a hand holding only the former
\* second card, both with times_split = s + 1; two aces whose first is valued 1
\* become two hands of one ace valued 11 each.
C9_SplitHalves ==
    (last_op.op = "split" /\ Eligible(last_op.pre)) =>
        LET pre == last_op.pre
            h == player_hands[last_op.i]
            new == player_hands[last_op.i + 1]
        IN  /\ error = "none"
            /\ Len(h.cards) = 1 /\ SameCard(h.cards[1], pre.cards[1])
            /\ Len(new.cards) = 1 /\ SameCard(new.cards[1], pre.cards[2])
            /\ h.times_split = pre.times_split + 1
            /\ new.times_split = pre.times_split + 1
            /\ (pre.cards[1].rank = 1 /\ pre.cards[2].rank = 1 /\ pre.cards[1].value = 1) =>
                    (h.cards[1].value = 11 /\ new.cards[1].value = 11)
            /\ (pre.cards[1].rank # 1) =>
                    (h.cards[1].value = pre.cards[1].value
                        /\ new.cards[1].value = pre.cards[2].value)

\* a second split of two aces, the first valued 1, has just been made
C9_Witness ==
    /\ last_op.op = "split"
    /\ error = "none"
    /\ Len(last_op.pre.cards) = 2
    /\ last_op.pre.cards[1].rank = 1 /\ last_op.pre.cards[1].value = 1
    /\ last_op.pre.cards[2].rank = 1
    /\ last_op.pre.times_split = 1
    /\ last_op.pre.cards[1].suit # last_op.pre.cards[2].suit

(***************************************************************************)
(* Properties of the round engine, checked under Spec.                     *)
(***************************************************************************)
\* C1: after Deal with n player hands, 2n+2 cards were drawn in this order:
\* draws 1..n went face-up to player hands 1..n, draw n+1 face-down to the
\* dealer, draws n+2..2n+1 face-up to player hands 1..n, and draw 2n+2 face-up
\* to the dealer; every hand holds two cards and the dealer exactly one
\* face-down card.
C1_DealOrder ==
    (last_op.op = "deal" /\ error = "none") =>
        LET n == Len(player_hands)
        IN  /\ Len(drawn) = 2 * n + 2
            /\ \A k \in 1..n :
                 /\ Len(player_hands[k].cards) = 2
                 /\ SameCard(player_hands[k].cards[1], drawn[k])
                 /\ SameCard(player_hands[k].cards[2], drawn[n + 1 + k])
                 /\ ~IsFlipped(drawn[k])
                 /\ ~IsFlipped(drawn[n + 1 + k])
            /\ Len(house_hand.cards) = 2
            /\ SameCard(house_hand.cards[2], drawn[n + 1])
            /\ SameCard(house_hand.cards[1], drawn[2 * n + 2])
            /\ IsFlipped(drawn[n + 1])
            /\ ~IsFlipped(drawn[2 * n + 2])
            /\ Cardinality({k \in 1..2 : IsFlipped(house_hand.cards[k])}) = 1

\* C1, the case: Deal has dealt two player hands and the dealer, and the first
\* and last cards drawn differ in rank.
C1_Witness ==
    /\ last_op.op = "deal"
    /\ error = "none"
    /\ Len(player_hands) = 2
    /\ Len(drawn) = 6
    /\ drawn[1].rank # drawn[2].rank

Natural(h) == Len(h.cards) = 2 /\ BestTotal(h.cards) = 21

Abs(x) == IF x < 0 THEN -x ELSE x

AceSix(cards) ==
    /\ Len(cards) = 2
    /\ {cards[1].rank, cards[2].rank} = {1, 6}

\* whether the dealer holding these cards is to draw
MustDraw(cards) == BestTotal(cards) < 17 \/ (AceSix(cards) /\ rules.h17)

\* C11: when DealerTurn runs with a player hand pending, the hidden card is
\* revealed and the dealer draws exactly while its score is below 17 or its
\* hand is the two-card ace+6 with houseHitsSoft17 set: dealt ace+6 it draws at
\* least one card when the rule is set and none when it is not, and it ends with
\* a score of at least 17 and no face-down card.  With no hand pending the
\* dealer draws nothing.
C11_DealerDraws ==
    [][(pc = "house_turn" /\ pc' = "show_results") =>
        IF \E i \in 1..Len(results) : results[i] = None
        THEN /\ \A k \in 1..Len(house_hand'.cards) : ~IsFlipped(house_hand'.cards[k])
             /\ Len(house_hand'.cards) = 2 + Len(drawn')
             /\ \A k \in 1..Len(drawn') :
                    /\ SameCard(house_hand'.cards[2 + k], drawn'[k])
                    /\ MustDraw(SubSeq(house_hand'.cards, 1, 1 + k))
             /\ ~MustDraw(house_hand'.cards)
             /\ BestTotal(house_hand'.cards) >= 17
             /\ Score(house_hand') = BestTotal(house_hand'.cards)
             /\ (AceSix(house_hand.cards) /\ rules.h17) => Len(drawn') >= 1
             /\ (AceSix(house_hand.cards) /\ ~rules.h17) => drawn' = <<>>
        ELSE /\ drawn' = <<>>
             /\ house_hand' = house_hand
             /\ deck' = deck
    ]_vars

\* C11, the case: the dealer, dealt an ace and a six under the hit-soft-17
\* rule with a hand pending, has revealed its card and drawn.
C11_Witness ==
    /\ last_op.op = "house_turn"
    /\ error = "none"
    /\ rules.h17
    /\ AceSix(last_op.pre.cards)
    /\ Len(drawn) >= 1
    /\ Len(house_hand.cards) = 2 + Len(drawn)

\* a score of 17 that counts an ace as 11
Soft17(h) ==
    /\ Score(h) = 17
    /\ \E k \in 1..Len(h.cards) : h.cards[k].rank = 1 /\ h.cards[k].value = 11

\* C12: with h17 enabled the dealer, once its turn has run, never stands on a
\* soft 17: its final hand is never a score of 17 with an ace valued 11,
\* whatever number of cards it holds.
C12_NeverStandsOnSoft17 ==
    (/\ last_op.op = "house_turn"
     /\ error = "none"
     /\ rules.h17
     /\ \A k \in 1..Len(house_hand.cards) : ~IsFlipped(house_hand.cards[k]))
        => ~Soft17(house_hand)

\* C13: every hand still pending when Settle runs has p <= 21 against a dealer
\* with d <= 21 and settles at +w if p > d, -w if p < d and 0 if p = d; and
\* when the dealer busts, every hand pending at that moment settles at +w.
C13_Settle ==
    [][/\ (pc = "show_results" /\ pc' = "end_round") =>
            \A i \in 1..Len(player_hands) :
                results[i] = None =>
                    LET p == BestTotal(player_hands[i].cards)
                        d == BestTotal(house_hand.cards)
                        w == bets[i]
                    IN  /\ p <= 21 /\ d <= 21
                        /\ p > d => results'[i] = Some(w)
                        /\ p < d => results'[i] = Some(-w)
                        /\ p = d => results'[i] = Some(0)
       /\ (pc = "house_turn" /\ pc' = "show_results"
                /\ BestTotal(house_hand'.cards) > 21) =>
            \A i \in 1..Len(player_hands) :
                results[i] = None => results'[i] = Some(bets[i])
    ]_vars

\* C13, the case: Settle has settled, in one round, a hand that beat a dealer
\* standing on 17 or more and a hand that lost to it.
C13_Witness ==
    /\ last_op.op = "show_results"
    /\ BestTotal(house_hand.cards) >= 17
    /\ BestTotal(house_hand.cards) < 21
    /\ \E i \in 1..Len(player_hands) :
         /\ BestTotal(player_hands[i].cards) > BestTotal(house_hand.cards)
         /\ BestTotal(player_hands[i].cards) <= 21
         /\ results[i] = Some(bets[i])
    /\ \E j \in 1..Len(player_hands) :
         /\ BestTotal(player_hands[j].cards) < BestTotal(house_hand.cards)
         /\ results[j] = Some(-bets[j])

\* the place after a step of the result that was at place j before it: a split
\* of hand i puts a new result in at place i + 1
PlaceAfter(j) ==
    IF Len(results') = Len(results) + 1 /\ j > last_op'.i THEN j + 1 ELSE j

\* C14: settlements are write-once: once the result of a hand is set (natural,
\* player bust, dealer bust) no later phase of the round changes it; and a
\* player hand that busted on wager w, doubled or not, reaches the end of the
\* round with exactly -w, whatever the dealer did.
C14_WriteOnce ==
    [][/\ (pc \in {"player_turn", "house_turn", "show_results", "end_round"}) =>
            /\ Len(results') >= Len(results)
            /\ \A j \in 1..Len(results) :
                    results[j] # None => results'[PlaceAfter(j)] = results[j]
       /\ (pc' \in {"end_round", "done"}) =>
            \A i \in 1..Len(player_hands') :
                BestTotal(player_hands'[i].cards) > 21 =>
                    results'[i] = Some(-bets'[i])
    ]_vars

\* C14, the case: Settle has run on a round in which the first hand busted,
\* the second stayed pending and the dealer went bust as well.
C14_Witness ==
    /\ last_op.op = "show_results"
    /\ BestTotal(house_hand.cards) > 21
    /\ Len(player_hands) >= 2
    /\ BestTotal(player_hands[1].cards) > 21
    /\ results[1] = Some(-bets[1])
    /\ results[2] = Some(bets[2])

\* a card worth ten: 10, J, Q or K
TenCard(c) == c.rank >= 10

\* C15: with split-different-tens enabled, every two-card hand of two
\* ten-valued cards is split-eligible, in either order of the two cards.
C15_TensSplitEitherOrder ==
    \A i \in 1..Len(player_hands) :
        LET h == player_hands[i]
        IN  (Len(h.cards) = 2 /\ TenCard(h.cards[1]) /\ TenCard(h.cards[2]))
                => CanSplit(h)

\* C16: when max_splits is not None, the splits made in one round never number
\* more than max_splits.
C16_SplitsWithinMax ==
    rules.max_splits # None => splits <= rules.max_splits[1]

\* the sum of the first k settlements
RECURSIVE SettledTo(_, _)
SettledTo(res, k) == IF k = 0 THEN 0 ELSE res[k][1] + SettledTo(res, k - 1)

\* C17: the bankroll and the count of rounds played are left alone by
\* StartRound, CollectWagers, Deal, CheckNaturals, PlayerTurn, DealerTurn and
\* Settle; EndRound adds to the bankroll exactly the sum of all hands'
\* settlements and adds exactly 1 to the count of rounds played.
C17_BankrollOnlyAtEndRound ==
    [][/\ (pc # "end_round") =>
            (money_left' = money_left /\ rounds_played' = rounds_played)
       /\ (pc = "end_round") =>
            /\ \A i \in 1..Len(results) : results[i] # None
            /\ money_left' = money_left + SettledTo(results, Len(results))
            /\ rounds_played' = rounds_played + 1
    ]_vars

\* C17, the case: EndRound has closed a round in which a hand was split, a
\* two-card hand carries a bet of 2, and the player came out ahead.
C17_Witness ==
    /\ last_op.op = "end_round"
    /\ rounds_played = 1
    /\ splits >= 1
    /\ \E i \in 1..Len(bets) : bets[i] = 2 /\ Len(player_hands[i].cards) = 2
    /\ SettledTo(results, Len(results)) # 0
    /\ money_left > 4

\* C18: in CollectWagers a wager below minBet and a wager above the upper bound
\* are rejected with the same validation error, and in neither case is the
\* wager appended to the wagers collected.
C18_WagerRejectedAlike ==
    (last_op.op = "collect_bets" /\ error # "none") =>
        /\ error = "ValueError"
        /\ bets = SubSeq(last_op.wagers, 1, last_op.i - 1)

\* the sum of the first k wagers answered
RECURSIVE WageredTo(_, _)
WageredTo(ws, k) == IF k = 0 THEN 0 ELSE ws[k] + WageredTo(ws, k - 1)

\* whether the k-th wager answered lies outside
\* [minBet, min(maxBet, bankroll - wagers collected before it)]
BadWager(ws, k) ==
    \/ ws[k] < min_bet
    \/ ws[k] > money_left - WageredTo(ws, k - 1)
    \/ (max_bet # None /\ ws[k] > max_bet[1])

\* the place of the first wager out of bounds among those answered
FirstBadWager(ws) ==
    CHOOSE k \in 1..Len(ws) : BadWager(ws, k) /\ \A j \in 1..(k - 1) : ~BadWager(ws, j)

\* C19: whenever an answer is rejected (hand count, wager, action, play-again
\* answer), the shoe, every player and dealer hand, the wagers already
\* collected and the bankroll are exactly as they were just before the answer
\* was asked for.
C19_RejectionChangesNothing ==
    [][(error = "none" /\ error' # "none") =>
        /\ deck' = deck
        /\ house_hand' = house_hand
        /\ player_hands' = player_hands
        /\ results' = results
        /\ (pc = "start_round") => (bets' = bets /\ money_left' = money_left)
        /\ (pc = "collect_bets") =>
                /\ bets' = SubSeq(last_op'.wagers, 1, FirstBadWager(last_op'.wagers) - 1)
                /\ money_left' = money_left
        /\ (pc = "player_turn") => (bets' = bets /\ money_left' = money_left)
        /\ (pc = "end_round") =>
                /\ bets' = bets
                /\ money_left' = money_left + SettledTo(results, Len(results))
        /\ pc \in {"start_round", "collect_bets", "player_turn", "end_round"}
    ]_vars

\* C19, the case: the wager for the second hand has been rejected after the
\* first was collected.
C19_Witness ==
    /\ last_op.op = "collect_bets"
    /\ error # "none"
    /\ last_op.i = 2
    /\ Len(bets) = 1
    /\ Len(player_hands) = 2

\* a product of splitting aces: a hand that has been through a split and whose
\* first card is an ace
SplitAce(h) == h.times_split >= 1 /\ Len(h.cards) >= 1 /\ h.cards[1].rank = 1

\* every product of splitting aces before place from has exactly two cards, and
\* every one from there on still has its one card
AcesPlayed(hands, from) ==
    \A k \in 1..Len(hands) :
        SplitAce(hands[k]) => Len(hands[k].cards) = (IF k < from THEN 2 ELSE 1)

\* C20: with one_hit_ace_split, a product of splitting aces is given exactly one
\* card without the player being asked, and its turn is over: it is not hit
\* again, doubled or split again, and it leaves _player_turn with two cards.
C20_SplitAcesOneCard ==
    [][rules.one_hit_ace_split =>
        /\ (pc = "player_turn" /\ pc' = "player_turn") =>
                LET i == NextPending(results, cur)
                IN  /\ SplitAce(player_hands[i]) =>
                            /\ last_op'.op = "turn_one_hit_ace"
                            /\ Len(player_hands') = Len(player_hands)
                            /\ Len(player_hands'[i].cards) = 2
                            /\ player_hands'[i].times_split = player_hands[i].times_split
                            /\ bets' = bets
                            /\ cur' = i + 1
                    /\ \A k \in 1..(cur - 1) :
                            SplitAce(player_hands[k]) =>
                                player_hands'[k] = player_hands[k] /\ bets'[k] = bets[k]
                    /\ AcesPlayed(player_hands', cur')
        /\ (pc' \in {"house_turn", "show_results", "end_round"} /\ error' = "none") =>
                AcesPlayed(player_hands', Len(player_hands') + 1)
    ]_vars

\* C20, the case: under one_hit_ace_split the player's turn is over with two
\* products of splitting aces, one of them short of 21.
C20_Witness ==
    /\ rules.one_hit_ace_split
    /\ pc = "house_turn"
    /\ \E j, k \in 1..Len(player_hands) :
            /\ j # k
            /\ SplitAce(player_hands[j]) /\ SplitAce(player_hands[k])
            /\ Len(player_hands[j].cards) = 2 /\ Len(player_hands[k].cards) = 2
            /\ Score(player_hands[j]) < BustLimit

\* C21: 'dd' is taken for a hand only when the bankroll less all the wagers
\* covers the hand's wager and (can_dd_after_split or the hand was never split);
\* it doubles that hand's wager and no other, gives the hand exactly one card,
\* and the hand's turn is over.
C21_DoubleDown ==
    [][(pc = "player_turn" /\ last_op'.op = "dd" /\ error' = "none") =>
        LET i == last_op'.i
        IN  /\ money_left - SumSeq(bets) >= bets[i]
            /\ (rules.can_dd_after_split \/ player_hands[i].times_split = 0)
            /\ bets' = [bets EXCEPT ![i] = 2 * bets[i]]
            /\ Len(player_hands') = Len(player_hands)
            /\ \A k \in 1..Len(player_hands) : k # i => player_hands'[k] = player_hands[k]
            /\ Len(player_hands'[i].cards) = Len(player_hands[i].cards) + 1
            /\ Len(drawn') = 1
            /\ cur' = i + 1
    ]_vars

\* C21, the case: a hand of two has doubled down next to another hand, and its
\* turn is over although it neither reached 21 nor went bust.
C21_Witness ==
    /\ pc = "player_turn"
    /\ error = "none"
    /\ last_op.op = "dd"
    /\ Len(bets) = 2
    /\ cur = last_op.i + 1
    /\ Score(player_hands[last_op.i]) < BustLimit

\* whether list t is list s with one element put in at place i + 1, the
\* elements after place i moved up by one
ShiftedAfter(s, t, i) ==
    /\ Len(t) = Len(s) + 1
    /\ \A k \in 1..i : t[k] = s[k]
    /\ \A k \in (i + 1)..Len(s) : t[k + 1] = s[k]

\* C22: a split of hand i puts the new hand at i + 1 with hand i's wager and no
\* result yet, moving later hands, wagers and results up by one; the three
\* lists have the same length throughout the play of the round, and a split of
\* the only hand, of wager w, leaves wagers summing to 2w.
C22_SplitInserts ==
    [][ /\ (pc = "player_turn" /\ last_op'.op = "sp" /\ error' = "none") =>
            LET i == last_op'.i
            IN  /\ ShiftedAfter(bets, bets', i)
                /\ bets'[i + 1] = bets[i]
                /\ ShiftedAfter(results, results', i)
                /\ results'[i + 1] = None
                /\ Len(player_hands') = Len(player_hands) + 1
                /\ \A k \in 1..(i - 1) : player_hands'[k] = player_hands[k]
                /\ \A k \in (i + 1)..Len(player_hands) :
                        player_hands'[k + 1] = player_hands[k]
                /\ Len(player_hands'[i].cards) = 1
                /\ player_hands'[i].cards[1].rank = player_hands[i].cards[1].rank
                /\ Len(player_hands'[i + 1].cards) = 1
                /\ player_hands'[i + 1].cards[1].rank = player_hands[i].cards[2].rank
                /\ SumSeq(bets') = SumSeq(bets) + bets[i]
                /\ (Len(bets) = 1) => (SumSeq(bets') = 2 * bets[1])
        /\ (pc' \in {"player_turn", "house_turn", "show_results", "end_round"}) =>
                (Len(player_hands') = Len(bets') /\ Len(bets') = Len(results'))
    ]_vars

\* C22, the case: the first of two hands has just been split, so the second
\* hand, its wager and its result have moved to place three.
C22_Witness ==
    /\ pc = "player_turn"
    /\ error = "none"
    /\ last_op.op = "sp"
    /\ last_op.i = 1
    /\ Len(player_hands) = 3
    /\ Len(player_hands[3].cards) = 2

\* C23: until the round is settled the wagers never sum to more than the
\* bankroll, and the bankroll is never negative, also once _end_round has
\* settled the round.
C23_WagersWithinBankroll ==
    /\ (rounds_played = 0) => (SumSeq(bets) <= money_left)
    /\ money_left >= 0

\* C23, the case: a round in which a split added a wager during play has been
\* settled, and it has taken the whole bankroll.
C23_Witness ==
    /\ rounds_played = 1
    /\ money_left = 0
    /\ \E i \in 1..Len(bets) : player_hands[i].times_split > 0

\* C24: once _start_round has accepted the number of hands, _collect_bets can be
\* completed whatever valid wagers are answered: a wager is only ever rejected
\* for a hand whose interval [min_bet, min(max_bet, money_left - sum(bets))]
\* holds at least one wager.
C24_WagersCompletable ==
    [][(pc = "collect_bets" /\ error = "none" /\ error' # "none") =>
        LET left == money_left - SumSeq(bets')
        IN  /\ min_bet <= left
            /\ (max_bet # None) => (min_bet <= max_bet[1])
    ]_vars

\* the number of cards of rank r in a list of cards
CountRank(cards, r) == Len(OfRank(cards, r))

\* the number of cards of rank r held in the hands of a list of hands
RECURSIVE CountInHands(_, _)
CountInHands(hands, r) ==
    IF hands = <<>> THEN 0
    ELSE CountRank(Last(hands).cards, r) + CountInHands(Front(hands), r)

\* C25: at every point of a round, for each rank, the cards of that rank in the
\* player hands, the dealer hand and the shoe together number at most
\* 4 * num_decks, also after draw_card has found the shoe empty and reset it.
C25_CardsConserved ==
    \A r \in 1..NumRanks :
        CountInHands(player_hands, r) + CountRank(house_hand.cards, r)
            + CountRank(deck.cards, r) <= NumSuits * deck.num_decks

\* C26: when _end_round sums the results none is None: each is a whole number
\* of absolute value at most round(1.5 * the hand's final bet), and the sum
\* never fails.
C26_AllSettledAtEndRound ==
    /\ (pc = "end_round") =>
            /\ Len(results) = Len(bets)
            /\ \A i \in 1..Len(results) :
                    /\ results[i] # None
                    /\ results[i][1] \in Int
                    /\ results[i][1] <= Round15(bets[i])
                    /\ -results[i][1] <= Round15(bets[i])
    /\ error # "TypeError"

\* C26, the case: the round is about to be summed with a hand that was split,
\* a hand paid for a natural, and a hand that lost.
C26_Witness ==
    /\ pc = "end_round"
    /\ \E i, j, k \in 1..Len(results) :
            /\ player_hands[i].times_split > 0
            /\ results[j] = Some(Round15(bets[j]))
            /\ results[k] # None /\ results[k][1] < 0

\* C27: _player_turn goes through the hands from left to right, never back to
\* a hand it has left (a hand put in by a split is the next one), a stand
\* leaves the hand at once, and, with every answer among those offered, a
\* round that has been dealt reaches _end_round, also with max_splits=None.
C27_RoundTerminates ==
    /\ [][(pc = "player_turn" /\ pc' = "player_turn") =>
            LET i == NextPending(results, cur)
            IN  /\ cur <= i
                /\ cur' \in {i, i + 1}
                /\ (last_op'.op = "s") => (cur' = i + 1)
                /\ \A k \in 1..(i - 1) :
                        /\ player_hands'[k] = player_hands[k]
                        /\ bets'[k] = bets[k]
                        /\ results'[k] = results[k]
       ]_vars
    /\ (pc = "deal") ~> (pc = "end_round" \/ last_op.op = "turn_rejected")

\* C27, the case: with max_splits=None a round in which the player split until
\* the money ran out has reached _end_round.
C27_Witness ==
    /\ pc = "end_round"
    /\ rules.max_splits = None
    /\ splits >= 2
    /\ SumSeq(bets) = money_left

\* C28: a hand made by a split is given a card before its turn can end: when
\* _player_turn is over every player hand holds at least two cards.
C28_SplitHandsDrawn ==
    (pc \in {"house_turn", "show_results", "end_round"}) =>
        \A i \in 1..Len(player_hands) : Len(player_hands[i].cards) >= 2

====
